---- MODULE Spec2Model ----
(***************************************************************************)
(* FileSharePro: the in-memory metadata store (server/storage.ts,          *)
(* class MemStorage) as a state machine.                                   *)
(*                                                                         *)
(* A JavaScript Map iterates in insertion order of its keys, and set() on  *)
(* a key already present keeps the key's position; `files` is therefore a  *)
(* sequence of entries [key, ref].  The values of the Map are object       *)
(* references: `heap` holds the File objects, an address being the index   *)
(* of the object in `heap`.  An object no reference leads to any more is   *)
(* collected: its slot holds Freed, and its address is not used again.     *)
(*                                                                         *)
(* `now` is the latest value `new Date()` has given, in milliseconds; the  *)
(* clock is taken to be non-decreasing, so a later reading is `now` again  *)
(* (the same millisecond) or a later one.                                  *)
(***************************************************************************)
EXTENDS Integers, Sequences, FiniteSets, TLC

\* ---------------------------------------------------------------- bounds
MaxFiles == 3      \* createFile is called at most MaxFiles times
MaxTime  == 2      \* the clock takes the values 0..MaxTime
MaxCount == 2      \* at most MaxCount counter increments take effect in a run
MaxHandlers == 3   \* at most MaxHandlers HTTP requests arrive in a run

\* ---------------------------------------------------------------- inputs
\* InsertFile values handed to createFile.  They differ in every field; the
\* same draft handed in twice gives two records with one shareId (the store
\* is handed whatever the caller gives).
Drafts ==
  { [filename |-> "f1.png", originalName |-> "photo.png", mimeType |-> "image/png",
     size |-> 2048, shareId |-> "abc123"],
    [filename |-> "f2.pdf", originalName |-> "doc.pdf", mimeType |-> "application/pdf",
     size |-> 10, shareId |-> "xyz789"] }

ShareIds == {"abc123", "xyz789", "nope00"}
Ids      == 1..MaxFiles
MaxDrops == 3      \* File objects dropped on the UploadZone

Undefined == 0     \* the address no object has
NoDraft == [filename |-> "", originalName |-> "", mimeType |-> "", size |-> 0, shareId |-> ""]

\* the slot of a collected object
Freed ==
  [ filename |-> "", originalName |-> "", mimeType |-> "", size |-> 0, shareId |-> "",
    id |-> 0, uploadedAt |-> 0, views |-> 0, downloads |-> 0 ]

VARIABLES
  heap,        \* Seq(File): the File objects ever allocated, by address
  files,       \* MemStorage.files: Seq([key, ref]) in Map insertion order
  currentId,   \* MemStorage.currentId
  now,         \* the latest reading of the clock
  call,        \* the last call made on the store, with its outcome:
               \*   [op; draft: the draft handed to createFile; live: a record had the
               \*    id handed in when the call was made; threw: it ended in an
               \*    exception; file: the File returned]
  issued,      \* history: what createFile returned, in call order: Seq([id, file])
  viewCalls,   \* history: id -> number of incrementViews(id) calls made while id was live
  downloadCalls, \* history: id -> number of incrementDownloads(id) calls made while id was live
  deleted,     \* history: the records deleteFile removed: set of [id, file]
  handlers,    \* the route handlers started, in order of arrival: Seq of
               \*   [kind; pc: the await the handler is suspended at, or "done";
               \*    file: its const `file`; status: of the response sent (0: none
               \*    yet); inc: it has called incrementViews / incrementDownloads;
               \*    hit: the id of its `file`, if a record had that id when the
               \*    handler came to count the request (0: none);
               \*    body: the views of the File res.json sent for a view request;
               \*    req: req.file of an upload until the handler has used it]
  disk,        \* the names of the files in the uploads directory
  uploadFiles, \* UploadZone: the state uploadFiles, Seq of
               \*   [file: the File object, by its number in order of arrival;
               \*    progress; status; result]
  uploadMutation \* UploadZone: the mutations uploadMutation.mutate started, in
               \*   call order: Seq of [variables: the File; status; data]

store == <<heap, files, currentId>>
zone  == <<uploadFiles, uploadMutation>>
vars  == <<heap, files, currentId, now, call, issued, viewCalls, downloadCalls, deleted,
           handlers, disk, uploadFiles, uploadMutation>>

\* ---------------------------------------------------------------- Map
MapIndex(m, k) == CHOOSE i \in 1..Len(m) : m[i].key = k
MapHas(m, k)   == \E i \in 1..Len(m) : m[i].key = k
MapGet(m, k)   == IF MapHas(m, k) THEN m[MapIndex(m, k)].ref ELSE Undefined
\* a Map whose set() moves a key already present to the end
MapSetMovesToEnd(m, k, r) ==
  Append(SelectSeq(m, LAMBDA e : e.key # k), [key |-> k, ref |-> r])

MapSet(m, k, r) ==
  IF MapHas(m, k) THEN [m EXCEPT ![MapIndex(m, k)].ref = r]
                  ELSE Append(m, [key |-> k, ref |-> r])
MapDelete(m, k) == SelectSeq(m, LAMBDA e : e.key # k)
MapValues(m)    == [i \in 1..Len(m) |-> m[i].ref]

\* ---------------------------------------------------------------- Array
Min(S) == CHOOSE x \in S : \A y \in S : x <= y

\* The callbacks handed to find, sort and reduce are functions: a predicate
\* P[x], a comparator cmp[<<x, y>>], a summand g[x].
Addresses == 1..Len(heap)

\* Array.prototype.find: the first element satisfying the predicate, or undefined
ArrayFind(a, P) ==
  LET hits == {i \in 1..Len(a) : P[a[i]]}
  IN  IF hits = {} THEN Undefined ELSE a[Min(hits)]

\* Array.prototype.sort is stable: elements the comparator does not order
\* keep their relative order.  InsertSorted puts x, which followed every
\* element of the sorted prefix s in the array, in front of the first
\* element e with cmp(e, x) > 0, hence behind every e with cmp(e, x) <= 0.
InsertSorted(s, x, cmp) ==
  LET after == {i \in 1..Len(s) : cmp[<<s[i], x>>] > 0}
      p     == IF after = {} THEN Len(s) + 1 ELSE Min(after)
  IN  SubSeq(s, 1, p - 1) \o <<x>> \o SubSeq(s, p, Len(s))

ArraySort(a, cmp) ==
  LET sorted[i \in 0..Len(a)] ==
        IF i = 0 THEN <<>> ELSE InsertSorted(sorted[i - 1], a[i], cmp)
  IN  sorted[Len(a)]

\* Array.prototype.reduce((sum, x) => sum + g(x), init)
ArrayReduce(a, g, init) ==
  LET acc[i \in 0..Len(a)] == IF i = 0 THEN init ELSE acc[i - 1] + g[a[i]]
  IN  acc[Len(a)]

\* ---------------------------------------------------------------- MemStorage, reads
getFileByShareId(shareId) ==
  ArrayFind(MapValues(files), [file \in Addresses |-> heap[file].shareId = shareId])

\* getAllFiles with the comparator's operands exchanged (oldest first)
getAllFilesOldestFirst ==
  ArraySort(MapValues(files),
            [ab \in Addresses \X Addresses |-> heap[ab[1]].uploadedAt - heap[ab[2]].uploadedAt])

getAllFiles ==
  ArraySort(MapValues(files),
            [ab \in Addresses \X Addresses |-> heap[ab[2]].uploadedAt - heap[ab[1]].uploadedAt])

\* getStats counting the records ever created instead of the live ones
getStatsCountsCreated ==
  LET allFiles == MapValues(files) IN
  [ totalFiles     |-> currentId - 1,
    totalViews     |-> ArrayReduce(allFiles, [file \in Addresses |-> heap[file].views], 0),
    totalDownloads |-> ArrayReduce(allFiles, [file \in Addresses |-> heap[file].downloads], 0),
    totalSize      |-> ArrayReduce(allFiles, [file \in Addresses |-> heap[file].size], 0) ]

getStats ==
  LET allFiles == MapValues(files) IN
  [ totalFiles     |-> Len(allFiles),
    totalViews     |-> ArrayReduce(allFiles, [file \in Addresses |-> heap[file].views], 0),
    totalDownloads |-> ArrayReduce(allFiles, [file \in Addresses |-> heap[file].downloads], 0),
    totalSize      |-> ArrayReduce(allFiles, [file \in Addresses |-> heap[file].size], 0) ]

\* ---------------------------------------------------------------- MemStorage, writes
\* new Date(): the clock's reading, not before the latest one
Dates == {t \in {now, now + 1} : t <= MaxTime}

\* the File object createFile builds from the draft
NewFile(insertFile, id, date) ==
  [ filename     |-> insertFile.filename,
    originalName |-> insertFile.originalName,
    mimeType     |-> insertFile.mimeType,
    size         |-> insertFile.size,
    shareId      |-> insertFile.shareId,
    id           |-> id,
    uploadedAt   |-> date,
    views        |-> 0,
    downloads    |-> 0 ]

\* the addresses held outside the Map: the `file` of the handlers hs
RootsOf(hs) == {hs[h].file : h \in 1..Len(hs)} \ {Undefined}
Roots == RootsOf(handlers)

\* garbage collection: the objects neither the Map m nor a root refers to
Sweep(h, m, roots) ==
  [a \in 1..Len(h) |->
     IF a \in roots \/ (\E i \in 1..Len(m) : m[i].ref = a) THEN h[a] ELSE Freed]
Collect(h, m) == Sweep(h, m, Roots)

\* the call returned (its promise resolved)
Returned(op, id, draft, file) ==
  call' = [op |-> op, draft |-> draft, live |-> MapHas(files, id), threw |-> FALSE,
           file |-> file]

\* the counter increments that have taken effect on the objects in the heap
Increments ==
  ArrayReduce([a \in Addresses |-> a],
              [file \in Addresses |-> heap[file].views + heap[file].downloads], 0)

Init ==
  /\ heap = <<>>
  /\ files = <<>>
  /\ currentId = 1
  /\ now = 0
  /\ call = [op |-> "new", draft |-> NoDraft, live |-> FALSE, threw |-> FALSE,
             file |-> Undefined]
  /\ issued = <<>>
  /\ viewCalls = [i \in Ids |-> 0]
  /\ downloadCalls = [i \in Ids |-> 0]
  /\ deleted = {}
  /\ handlers = <<>>
  /\ disk = {}
  /\ uploadFiles = <<>>
  /\ uploadMutation = <<>>

\* createFile taking the next id from the number of live records
createFileCountsLive(insertFile) ==
  /\ currentId <= MaxFiles
  /\ \E date \in Dates :
       LET id   == Len(files) + 1
           file == Len(heap) + 1
       IN /\ currentId' = currentId + 1
          /\ heap' = Collect(Append(heap, NewFile(insertFile, id, date)), MapSet(files, id, file))
          /\ files' = MapSet(files, id, file)
          /\ now' = date
          /\ issued' = Append(issued, [id |-> id, file |-> file])
          /\ Returned("createFile", 0, insertFile, file)
  /\ UNCHANGED <<viewCalls, downloadCalls, deleted>>

\* createFile with `++this.currentId` for `this.currentId++`
createFilePreIncrement(insertFile) ==
  /\ currentId <= MaxFiles
  /\ \E date \in Dates :
       LET id   == currentId + 1
           file == Len(heap) + 1
       IN /\ currentId' = currentId + 1
          /\ heap' = Append(heap, NewFile(insertFile, id, date))
          /\ files' = MapSet(files, id, file)
          /\ now' = date
          /\ issued' = Append(issued, [id |-> id, file |-> file])
          /\ Returned("createFile", 0, insertFile, file)
  /\ UNCHANGED <<viewCalls, downloadCalls, deleted>>

\* createFile with the Map key taken after the increment:
\* `const id = this.currentId++; ...; this.files.set(this.currentId, file)`
createFileKeyAfterIncrement(insertFile) ==
  /\ currentId <= MaxFiles
  /\ \E date \in Dates :
       LET id   == currentId
           file == Len(heap) + 1
       IN /\ currentId' = currentId + 1
          /\ heap' = Append(heap, NewFile(insertFile, id, date))
          /\ files' = MapSet(files, id + 1, file)
          /\ now' = date
          /\ issued' = Append(issued, [id |-> id, file |-> file])
          /\ Returned("createFile", 0, insertFile, file)
  /\ UNCHANGED <<viewCalls, downloadCalls, deleted>>

\* createFile refusing a draft whose shareId a live record holds
createFileRejectsDuplicate(insertFile) ==
  IF \E i \in 1..Len(files) : heap[files[i].ref].shareId = insertFile.shareId
    THEN /\ currentId <= MaxFiles
         /\ call' = [op |-> "createFile", draft |-> insertFile, live |-> FALSE,
                     threw |-> TRUE, file |-> Undefined]
         /\ UNCHANGED <<heap, files, currentId, now, issued, viewCalls, downloadCalls,
                        deleted>>
    ELSE /\ currentId <= MaxFiles
         /\ \E date \in Dates :
              LET id   == currentId
                  file == Len(heap) + 1
              IN /\ currentId' = currentId + 1
                 /\ heap' = Append(heap, NewFile(insertFile, id, date))
                 /\ files' = MapSet(files, id, file)
                 /\ now' = date
                 /\ issued' = Append(issued, [id |-> id, file |-> file])
                 /\ Returned("createFile", 0, insertFile, file)
         /\ UNCHANGED <<viewCalls, downloadCalls, deleted>>

createFile(insertFile) ==
  /\ currentId <= MaxFiles
  /\ \E date \in Dates :
       LET id   == currentId
           file == Len(heap) + 1
       IN /\ currentId' = currentId + 1
          /\ heap' = Append(heap, NewFile(insertFile, id, date))
          /\ files' = MapSet(files, id, file)
          /\ now' = date
          /\ issued' = Append(issued, [id |-> id, file |-> file])
          /\ Returned("createFile", 0, insertFile, file)
  /\ UNCHANGED <<viewCalls, downloadCalls, deleted>>

\* incrementViews with `file.views =+ 1` for `file.views++`
incrementViewsAssignsOne(id) ==
  LET file == MapGet(files, id) IN
  /\ file # Undefined => Increments < MaxCount
  /\ IF file # Undefined
       THEN /\ heap' = [heap EXCEPT ![file].views = 1]
            /\ files' = MapSet(files, id, file)
       ELSE UNCHANGED <<heap, files>>
  /\ viewCalls' = IF MapHas(files, id) THEN [viewCalls EXCEPT ![id] = @ + 1] ELSE viewCalls
  /\ Returned("incrementViews", id, NoDraft, Undefined)
  /\ UNCHANGED <<currentId, now, issued, downloadCalls, deleted>>

\* incrementViews creating a record for an id the Map does not hold:
\* `const file = this.files.get(id) ?? { id, views: 0 }`
incrementViewsUpserts(id) ==
  LET file == MapGet(files, id) IN
  /\ Increments < MaxCount
  /\ IF file # Undefined
       THEN /\ heap' = [heap EXCEPT ![file].views = @ + 1]
            /\ files' = MapSet(files, id, file)
       ELSE /\ heap' = Append(heap, [Freed EXCEPT !.id = id, !.views = 1])
            /\ files' = MapSet(files, id, Len(heap) + 1)
  /\ viewCalls' = IF MapHas(files, id) THEN [viewCalls EXCEPT ![id] = @ + 1] ELSE viewCalls
  /\ Returned("incrementViews", id, NoDraft, Undefined)
  /\ UNCHANGED <<currentId, now, issued, downloadCalls, deleted>>

\* incrementViews counting the view as a download as well
incrementViewsAlsoDownloads(id) ==
  LET file == MapGet(files, id) IN
  /\ file # Undefined => Increments < MaxCount
  /\ IF file # Undefined
       THEN /\ heap' = [heap EXCEPT ![file].views = @ + 1, ![file].downloads = @ + 1]
            /\ files' = MapSet(files, id, file)
       ELSE UNCHANGED <<heap, files>>
  /\ viewCalls' = IF MapHas(files, id) THEN [viewCalls EXCEPT ![id] = @ + 1] ELSE viewCalls
  /\ Returned("incrementViews", id, NoDraft, Undefined)
  /\ UNCHANGED <<currentId, now, issued, downloadCalls, deleted>>

\* const file = this.files.get(id); if (file) { file.views++; this.files.set(id, file); }
incrementViews(id) ==
  LET file == MapGet(files, id) IN
  /\ file # Undefined => Increments < MaxCount
  /\ IF file # Undefined
       THEN /\ heap' = [heap EXCEPT ![file].views = @ + 1]
            /\ files' = MapSet(files, id, file)
       ELSE UNCHANGED <<heap, files>>
  /\ viewCalls' = IF MapHas(files, id) THEN [viewCalls EXCEPT ![id] = @ + 1] ELSE viewCalls
  /\ Returned("incrementViews", id, NoDraft, Undefined)
  /\ UNCHANGED <<currentId, now, issued, downloadCalls, deleted>>

\* incrementDownloads without the `if (file)` guard: file.downloads++ on undefined
incrementDownloadsUnguarded(id) ==
  LET file == MapGet(files, id) IN
  /\ file # Undefined => Increments < MaxCount
  /\ IF file # Undefined
       THEN /\ heap' = [heap EXCEPT ![file].downloads = @ + 1]
            /\ files' = MapSet(files, id, file)
       ELSE UNCHANGED <<heap, files>>
  /\ downloadCalls' = IF MapHas(files, id) THEN [downloadCalls EXCEPT ![id] = @ + 1]
                                            ELSE downloadCalls
  /\ call' = [op |-> "incrementDownloads", draft |-> NoDraft, live |-> MapHas(files, id),
              threw |-> file = Undefined, file |-> Undefined]
  /\ UNCHANGED <<currentId, now, issued, viewCalls, deleted>>

\* incrementDownloads with `file.downloads--` for `file.downloads++`
incrementDownloadsDecrements(id) ==
  LET file == MapGet(files, id) IN
  /\ file # Undefined => Increments < MaxCount
  /\ IF file # Undefined
       THEN /\ heap' = [heap EXCEPT ![file].downloads = @ - 1]
            /\ files' = MapSet(files, id, file)
       ELSE UNCHANGED <<heap, files>>
  /\ downloadCalls' = IF MapHas(files, id) THEN [downloadCalls EXCEPT ![id] = @ + 1]
                                            ELSE downloadCalls
  /\ Returned("incrementDownloads", id, NoDraft, Undefined)
  /\ UNCHANGED <<currentId, now, issued, viewCalls, deleted>>

incrementDownloads(id) ==
  LET file == MapGet(files, id) IN
  /\ file # Undefined => Increments < MaxCount
  /\ IF file # Undefined
       THEN /\ heap' = [heap EXCEPT ![file].downloads = @ + 1]
            /\ files' = MapSet(files, id, file)
       ELSE UNCHANGED <<heap, files>>
  /\ downloadCalls' = IF MapHas(files, id) THEN [downloadCalls EXCEPT ![id] = @ + 1]
                                            ELSE downloadCalls
  /\ Returned("incrementDownloads", id, NoDraft, Undefined)
  /\ UNCHANGED <<currentId, now, issued, viewCalls, deleted>>

\* deleteFile handing the Map a key it does not hold (the id as a string)
deleteFileWrongKey(id) ==
  /\ files' = files
  /\ heap' = Collect(heap, files')
  /\ deleted' = IF MapHas(files, id)
                  THEN deleted \cup {[id |-> id, file |-> MapGet(files, id)]}
                  ELSE deleted
  /\ viewCalls' = [viewCalls EXCEPT ![id] = 0]
  /\ downloadCalls' = [downloadCalls EXCEPT ![id] = 0]
  /\ Returned("deleteFile", id, NoDraft, Undefined)
  /\ UNCHANGED <<currentId, now, issued>>

\* deleteFile rejecting an id the Map has no entry for
deleteFileThrowsWhenAbsent(id) ==
  /\ files' = MapDelete(files, id)
  /\ heap' = Collect(heap, files')
  /\ deleted' = IF MapHas(files, id)
                  THEN deleted \cup {[id |-> id, file |-> MapGet(files, id)]}
                  ELSE deleted
  /\ viewCalls' = [viewCalls EXCEPT ![id] = 0]
  /\ downloadCalls' = [downloadCalls EXCEPT ![id] = 0]
  /\ call' = [op |-> "deleteFile", draft |-> NoDraft, live |-> MapHas(files, id),
              threw |-> ~MapHas(files, id), file |-> Undefined]
  /\ UNCHANGED <<currentId, now, issued>>

deleteFile(id) ==
  /\ files' = MapDelete(files, id)
  /\ heap' = Collect(heap, files')
  /\ deleted' = IF MapHas(files, id)
                  THEN deleted \cup {[id |-> id, file |-> MapGet(files, id)]}
                  ELSE deleted
  /\ viewCalls' = [viewCalls EXCEPT ![id] = 0]
  /\ downloadCalls' = [downloadCalls EXCEPT ![id] = 0]
  /\ Returned("deleteFile", id, NoDraft, Undefined)
  /\ UNCHANGED <<currentId, now, issued>>

CreateFile ==
  (\E insertFile \in Drafts : createFile(insertFile)) /\ UNCHANGED <<handlers, disk, zone>>
IncrementViews ==
  (\E id \in Ids : incrementViews(id)) /\ UNCHANGED <<handlers, disk, zone>>
IncrementDownloads ==
  (\E id \in Ids : incrementDownloads(id)) /\ UNCHANGED <<handlers, disk, zone>>
DeleteFile ==
  (\E id \in Ids : deleteFile(id)) /\ UNCHANGED <<handlers, disk, zone>>

Next ==
  \/ CreateFile
  \/ IncrementViews
  \/ IncrementDownloads
  \/ DeleteFile

Spec == Init /\ [][Next]_vars

\* ---------------------------------------------------------------- reads
\* The calls of the three read operations, as steps of their own beside the
\* four writes.  What a call returns is the value of the operator of the
\* same name above; the step is what the call does to the store.

\* getFileByShareId: Array.from(this.files.values()).find(...) works on a copy
getFileByShareIdCall(shareId) ==
  /\ Returned("getFileByShareId", 0, NoDraft, Undefined)
  /\ UNCHANGED <<heap, files, currentId, now, issued, viewCalls, downloadCalls, deleted>>

\* getAllFiles sorting the Map itself: its entries are re-inserted in the
\* order of the sorted array
getAllFilesSortsStore ==
  /\ files' = [i \in 1..Len(files) |->
                 [key |-> heap[getAllFiles[i]].id, ref |-> getAllFiles[i]]]
  /\ Returned("getAllFiles", 0, NoDraft, Undefined)
  /\ UNCHANGED <<heap, currentId, now, issued, viewCalls, downloadCalls, deleted>>

\* getAllFiles: Array.from(this.files.values()).sort(...) sorts a copy
getAllFilesCall ==
  /\ Returned("getAllFiles", 0, NoDraft, Undefined)
  /\ UNCHANGED <<heap, files, currentId, now, issued, viewCalls, downloadCalls, deleted>>

\* getStats: Array.from(this.files.values()) and three reduce() over the copy
getStatsCall ==
  /\ Returned("getStats", 0, NoDraft, Undefined)
  /\ UNCHANGED <<heap, files, currentId, now, issued, viewCalls, downloadCalls, deleted>>

GetFileByShareId ==
  (\E shareId \in ShareIds : getFileByShareIdCall(shareId)) /\ UNCHANGED <<handlers, disk, zone>>
GetAllFiles == getAllFilesCall /\ UNCHANGED <<handlers, disk, zone>>
GetStats    == getStatsCall /\ UNCHANGED <<handlers, disk, zone>>

NextReads ==
  \/ CreateFile
  \/ IncrementViews
  \/ IncrementDownloads
  \/ DeleteFile
  \/ GetFileByShareId
  \/ GetAllFiles
  \/ GetStats

SpecReads == Init /\ [][NextReads]_vars

\* ---------------------------------------------------------------- routes
\* The route handlers of registerRoutes.  A handler is an async function: it
\* runs from one await to the next without another handler running, and
\* other handlers may run while it is suspended at an await.  Each action
\* below is one such stretch of one handler.  The calls on the store are the
\* actions of MemStorage above; a call that only reads is evaluated where the
\* handler makes it.

\* the names multer's diskStorage gives the uploaded files, one per request
UploadNames == <<"1.png", "2.png", "3.png", "4.png", "5.png">>
\* what nanoid(10) may return
NanoIds == {"abc123", "xyz789"}
\* limits.fileSize
fileSize == 100 * 1024 * 1024
\* the files a request may carry: one that multer accepts, three with a name
\* the fileFilter refuses, one that is too large
UploadFiles ==
  { [originalname |-> "photo.png", mimetype |-> "image/png", size |-> 2048],
    [originalname |-> "run.exe",   mimetype |-> "image/png", size |-> 2048],
    [originalname |-> "png",       mimetype |-> "image/png", size |-> 2048],
    [originalname |-> "a.png.sh",  mimetype |-> "image/png", size |-> 2048],
    [originalname |-> "BIG.ZIP",   mimetype |-> "application/zip", size |-> fileSize + 1] }
NoFile == [originalname |-> "", mimetype |-> "", size |-> 0]

\* String.prototype.toLowerCase, as the i flag of the RegExp applies it
UpperCase == "ABCDEFGHIJKLMNOPQRSTUVWXYZ"
LowerCase == "abcdefghijklmnopqrstuvwxyz"
CharAt(str, i) == SubSeq(str, i, i)
ToLowerCaseChar(c) ==
  IF \E k \in 1..Len(UpperCase) : CharAt(UpperCase, k) = c
    THEN CharAt(LowerCase, CHOOSE k \in 1..Len(UpperCase) : CharAt(UpperCase, k) = c)
    ELSE c
ToLowerCase(str) ==
  LET lower[i \in 0..Len(str)] ==
        IF i = 0 THEN "" ELSE lower[i - 1] \o ToLowerCaseChar(CharAt(str, i))
  IN  lower[Len(str)]

\* /\.(jpg|jpeg|png|gif|pdf|doc|docx|xls|xlsx|ppt|pptx|zip|rar|txt|csv)$/i
\* .test(name): a "." followed by one of the alternatives, up to the end
allowedTypes ==
  {"jpg", "jpeg", "png", "gif", "pdf", "doc", "docx", "xls", "xlsx", "ppt", "pptx", "zip",
   "rar", "txt", "csv"}
allowedTypesTest(name) ==
  \E i \in 1..(Len(name) - 1) :
    /\ CharAt(name, i) = "."
    /\ ToLowerCase(SubSeq(name, i + 1, Len(name))) \in allowedTypes
fileFilter(file) == allowedTypesTest(file.originalname)
\* the files upload.single lets through: the fileFilter calls cb(null, true)
\* and the size is within limits.fileSize
Accepted == {file \in UploadFiles : fileFilter(file) /\ file.size <= fileSize}
\* multer without the fileFilter option
AcceptedUnfiltered == {file \in UploadFiles : file.size <= fileSize}

\* fileData: req.file as multer stored it under the name of request h, with
\* the shareId the handler draws
FileData(h, file, shareId) ==
  [filename |-> UploadNames[h], originalName |-> file.originalname,
   mimeType |-> file.mimetype, size |-> file.size, shareId |-> shareId]

Started(kind, pc, file) ==
  [kind |-> kind, pc |-> pc, file |-> file, status |-> 0, inc |-> FALSE, hit |-> 0,
   body |-> 0, req |-> NoFile]
\* the handler has sent its response and returned; its `file` is gone
Responded(handler, status) ==
  [handler EXCEPT !.pc = "done", !.file = Undefined, !.status = status]
Handlers == 1..Len(handlers)
Arrives(handler) ==
  /\ Len(handlers) < MaxHandlers
  /\ handlers' = Append(handlers, handler)
\* handler h sends its response; the store stays as it is but for the heap,
\* where the object its `file` led to may have become unreachable
Responds(h, status) ==
  LET hs == [handlers EXCEPT ![h] = Responded(@, status)] IN
  /\ handlers' = hs
  /\ heap' = Sweep(heap, files, RootsOf(hs))
  /\ UNCHANGED <<files, currentId, now, call, issued, viewCalls, downloadCalls, deleted>>
\* fs.existsSync(filePath) gives `exists`.  The uploads directory is not the
\* server's alone: a file the server stored may have been removed from
\* outside since, which shows when the server next looks for it.
existsSync(filename, exists) ==
  /\ exists => filename \in disk
  /\ disk' = IF exists THEN disk ELSE disk \ {filename}
\* the id, when a record is live under it
Hit(id) == IF MapHas(files, id) THEN id ELSE 0

\* multer without the fileFilter option
PostUploadStoredUnfiltered(file) ==
  /\ file \in AcceptedUnfiltered
  /\ Arrives([Started("upload", "multer", Undefined) EXCEPT !.req = file])
  /\ disk' = disk \cup {UploadNames[Len(handlers) + 1]}
  /\ UNCHANGED <<heap, files, currentId, now, call, issued, viewCalls, downloadCalls,
                 deleted>>

\* POST /api/upload: multer (upload.single) has passed the file through the
\* fileFilter and stored the blob, within limits.fileSize
PostUploadStored(file) ==
  /\ file \in Accepted
  /\ Arrives([Started("upload", "multer", Undefined) EXCEPT !.req = file])
  /\ disk' = disk \cup {UploadNames[Len(handlers) + 1]}
  /\ UNCHANGED <<heap, files, currentId, now, call, issued, viewCalls, downloadCalls,
                 deleted>>

\* POST /api/upload: the fileFilter refuses the file (cb(new Error(...))) or
\* the file exceeds limits.fileSize: multer keeps no blob and hands the error
\* on; the route handler is not run, and the request is answered with an error
PostUploadRejected(file) ==
  /\ file \notin Accepted
  /\ Arrives(Responded(Started("upload", "multer", Undefined), 500))
  /\ UNCHANGED <<heap, files, currentId, now, call, issued, viewCalls, downloadCalls,
                 deleted, disk>>

\* POST /api/upload without a file: if (!req.file) return res.status(400)...
PostUploadNoFile ==
  /\ Arrives(Responded(Started("upload", "multer", Undefined), 400))
  /\ UNCHANGED <<heap, files, currentId, now, call, issued, viewCalls, downloadCalls,
                 deleted, disk>>

\* ... the handler: shareId = nanoid(10); await storage.createFile(validatedData)
PostUploadCreate(h) ==
  /\ handlers[h].kind = "upload"
  /\ handlers[h].pc = "multer"
  /\ \E shareId \in NanoIds : createFile(FileData(h, handlers[h].req, shareId))
  /\ handlers' = [handlers EXCEPT ![h].pc = "createFile", ![h].file = call'.file,
                                  ![h].req = NoFile]
  /\ UNCHANGED disk

\* ... res.json(file)
PostUploadRespond(h) ==
  /\ handlers[h].kind = "upload"
  /\ handlers[h].pc = "createFile"
  /\ Responds(h, 200)
  /\ UNCHANGED disk

\* GET /api/files/:shareId: await storage.getFileByShareId(shareId)
GetFileLookup(shareId) ==
  /\ Arrives(Started("view", "getFileByShareId", getFileByShareId(shareId)))
  /\ UNCHANGED <<heap, files, currentId, now, call, issued, viewCalls, downloadCalls,
                 deleted, disk>>

\* the view handler writing the object it holds back into the Map itself
GetFileIncrementSetsHeld(h) ==
  LET file == handlers[h].file IN
  /\ handlers[h].kind = "view"
  /\ handlers[h].pc = "getFileByShareId"
  /\ IF file = Undefined
       THEN Responds(h, 404)
       ELSE /\ Increments < MaxCount
            /\ heap' = [heap EXCEPT ![file].views = @ + 1]
            /\ files' = MapSet(files, heap[file].id, file)
            /\ viewCalls' = [viewCalls EXCEPT ![heap[file].id] = @ + 1]
            /\ Returned("incrementViews", heap[file].id, NoDraft, Undefined)
            /\ UNCHANGED <<currentId, now, issued, downloadCalls, deleted>>
            /\ handlers' = [handlers EXCEPT ![h].pc = "incrementViews", ![h].inc = TRUE,
                                            ![h].hit = Hit(heap[file].id)]
  /\ UNCHANGED disk

\* the view handler not counting a view while another handler is at work on
\* the same File
GetFileIncrementOncePerFile(h) ==
  LET file == handlers[h].file IN
  /\ handlers[h].kind = "view"
  /\ handlers[h].pc = "getFileByShareId"
  /\ IF file = Undefined
       THEN Responds(h, 404)
       ELSE IF \E g \in Handlers \ {h} : handlers[g].file = file
         THEN /\ handlers' = [handlers EXCEPT ![h].pc = "incrementViews",
                                              ![h].hit = Hit(heap[file].id)]
              /\ UNCHANGED <<heap, files, currentId, now, call, issued, viewCalls,
                             downloadCalls, deleted>>
         ELSE /\ incrementViews(heap[file].id)
              /\ handlers' = [handlers EXCEPT ![h].pc = "incrementViews", ![h].inc = TRUE,
                                              ![h].hit = Hit(heap[file].id)]
  /\ UNCHANGED disk

\* the view handler without its `await storage.incrementViews(file.id)`
GetFileIncrementForgets(h) ==
  LET file == handlers[h].file IN
  /\ handlers[h].kind = "view"
  /\ handlers[h].pc = "getFileByShareId"
  /\ IF file = Undefined
       THEN Responds(h, 404)
       ELSE /\ handlers' = [handlers EXCEPT ![h].pc = "incrementViews",
                                            ![h].hit = Hit(heap[file].id)]
            /\ UNCHANGED <<heap, files, currentId, now, call, issued, viewCalls,
                           downloadCalls, deleted>>
  /\ UNCHANGED disk

\* ... if (!file) 404; await storage.incrementViews(file.id)
GetFileIncrement(h) ==
  LET file == handlers[h].file IN
  /\ handlers[h].kind = "view"
  /\ handlers[h].pc = "getFileByShareId"
  /\ IF file = Undefined
       THEN Responds(h, 404)
       ELSE /\ incrementViews(heap[file].id)
            /\ handlers' = [handlers EXCEPT ![h].pc = "incrementViews", ![h].inc = TRUE,
                                            ![h].hit = Hit(heap[file].id)]
  /\ UNCHANGED disk

\* ... res.json(file)
\* the view handler sending the File as it was before it counted the view
GetFileRespondSendsEarlierFile(h) ==
  LET file == handlers[h].file
      hs   == [handlers EXCEPT
                 ![h] = [Responded(@, 200) EXCEPT !.body = heap[file].views - 1]]
  IN /\ handlers[h].kind = "view"
     /\ handlers[h].pc = "incrementViews"
     /\ handlers' = hs
     /\ heap' = Sweep(heap, files, RootsOf(hs))
     /\ UNCHANGED <<files, currentId, now, call, issued, viewCalls, downloadCalls, deleted,
                    disk>>

GetFileRespond(h) ==
  LET file == handlers[h].file
      hs   == [handlers EXCEPT ![h] = [Responded(@, 200) EXCEPT !.body = heap[file].views]]
  IN /\ handlers[h].kind = "view"
     /\ handlers[h].pc = "incrementViews"
     /\ handlers' = hs
     /\ heap' = Sweep(heap, files, RootsOf(hs))
     /\ UNCHANGED <<files, currentId, now, call, issued, viewCalls, downloadCalls, deleted,
                    disk>>

\* GET /api/download/:shareId: await storage.getFileByShareId(shareId)
GetDownloadLookup(shareId) ==
  /\ Arrives(Started("download", "getFileByShareId", getFileByShareId(shareId)))
  /\ UNCHANGED <<heap, files, currentId, now, call, issued, viewCalls, downloadCalls,
                 deleted, disk>>

\* the download handler without its `await storage.incrementDownloads(file.id)`
GetDownloadIncrementForgets(h) ==
  LET file == handlers[h].file IN
  /\ handlers[h].kind = "download"
  /\ handlers[h].pc = "getFileByShareId"
  /\ IF file = Undefined
       THEN Responds(h, 404) /\ UNCHANGED disk
       ELSE \E exists \in BOOLEAN :
              /\ existsSync(heap[file].filename, exists)
              /\ IF ~exists
                   THEN Responds(h, 404)
                   ELSE /\ handlers' = [handlers EXCEPT ![h].pc = "incrementDownloads",
                                                        ![h].hit = Hit(heap[file].id)]
                        /\ UNCHANGED <<heap, files, currentId, now, call, issued, viewCalls,
                                       downloadCalls, deleted>>

\* the download handler counting the download before it looks at the disk
GetDownloadIncrementFirst(h) ==
  LET file == handlers[h].file IN
  /\ handlers[h].kind = "download"
  /\ handlers[h].pc = "getFileByShareId"
  /\ IF file = Undefined
       THEN Responds(h, 404) /\ UNCHANGED disk
       ELSE \E exists \in BOOLEAN :
              /\ existsSync(heap[file].filename, exists)
              /\ incrementDownloads(heap[file].id)
              /\ handlers' =
                   IF exists
                     THEN [handlers EXCEPT ![h].pc = "incrementDownloads", ![h].inc = TRUE,
                                           ![h].hit = Hit(heap[file].id)]
                     ELSE [handlers EXCEPT ![h] = [Responded(@, 404) EXCEPT !.inc = TRUE]]

\* ... if (!file) 404; if (!fs.existsSync(filePath)) 404;
\* await storage.incrementDownloads(file.id)
GetDownloadIncrement(h) ==
  LET file == handlers[h].file IN
  /\ handlers[h].kind = "download"
  /\ handlers[h].pc = "getFileByShareId"
  /\ IF file = Undefined
       THEN Responds(h, 404) /\ UNCHANGED disk
       ELSE \E exists \in BOOLEAN :
              /\ existsSync(heap[file].filename, exists)
              /\ IF ~exists
                   THEN Responds(h, 404)
                   ELSE /\ incrementDownloads(heap[file].id)
                        /\ handlers' = [handlers EXCEPT ![h].pc = "incrementDownloads",
                                                        ![h].inc = TRUE,
                                                        ![h].hit = Hit(heap[file].id)]

\* ... res.setHeader(...); res.sendFile(filePath)
GetDownloadSend(h) ==
  /\ handlers[h].kind = "download"
  /\ handlers[h].pc = "incrementDownloads"
  /\ Responds(h, 200)
  /\ UNCHANGED disk

\* GET /api/preview/:shareId: await storage.getFileByShareId(shareId)
GetPreviewLookup(shareId) ==
  /\ Arrives(Started("preview", "getFileByShareId", getFileByShareId(shareId)))
  /\ UNCHANGED <<heap, files, currentId, now, call, issued, viewCalls, downloadCalls,
                 deleted, disk>>

\* the preview handler counting a download, as the download handler does
GetPreviewSendCountsDownload(h) ==
  LET file == handlers[h].file IN
  /\ handlers[h].kind = "preview"
  /\ handlers[h].pc = "getFileByShareId"
  /\ IF file = Undefined
       THEN Responds(h, 404) /\ UNCHANGED disk
       ELSE \E exists \in BOOLEAN :
              /\ existsSync(heap[file].filename, exists)
              /\ IF ~exists
                   THEN Responds(h, 404)
                   ELSE /\ incrementDownloads(heap[file].id)
                        /\ handlers' =
                             [handlers EXCEPT ![h] = [Responded(@, 200) EXCEPT !.inc = TRUE]]

\* ... if (!file) 404; if (!fs.existsSync(filePath)) 404; res.sendFile(filePath)
GetPreviewSend(h) ==
  LET file == handlers[h].file IN
  /\ handlers[h].kind = "preview"
  /\ handlers[h].pc = "getFileByShareId"
  /\ IF file = Undefined
       THEN Responds(h, 404) /\ UNCHANGED disk
       ELSE \E exists \in BOOLEAN :
              /\ existsSync(heap[file].filename, exists)
              /\ IF exists THEN Responds(h, 200) ELSE Responds(h, 404)

\* DELETE /api/admin/files/:id:
\* await storage.getAllFiles().then(files => files.find(f => f.id === id))
DeleteAdminFileFind(id) ==
  /\ Arrives(Started("delete", "getAllFiles",
                     ArrayFind(getAllFiles, [f \in Addresses |-> heap[f].id = id])))
  /\ UNCHANGED <<heap, files, currentId, now, call, issued, viewCalls, downloadCalls,
                 deleted, disk>>

\* the delete handler removing the record and leaving the blob on the disk
DeleteAdminFileRemoveKeepsBlob(h) ==
  LET file == handlers[h].file IN
  /\ handlers[h].kind = "delete"
  /\ handlers[h].pc = "getAllFiles"
  /\ IF file = Undefined
       THEN Responds(h, 200) /\ UNCHANGED disk
       ELSE /\ UNCHANGED disk
            /\ deleteFile(heap[file].id)
            /\ handlers' = [handlers EXCEPT ![h].pc = "deleteFile"]

\* the delete handler calling storage.deleteFile(id) before fs.unlinkSync
DeleteAdminFileRemoveStoreFirst(h) ==
  LET file == handlers[h].file IN
  /\ handlers[h].kind = "delete"
  /\ handlers[h].pc = "getAllFiles"
  /\ IF file = Undefined
       THEN Responds(h, 200) /\ UNCHANGED disk
       ELSE \E threw \in BOOLEAN :
              /\ threw => heap[file].filename \in disk
              /\ deleteFile(heap[file].id)
              /\ IF threw
                   THEN /\ handlers' = [handlers EXCEPT ![h] = Responded(@, 500)]
                        /\ UNCHANGED disk
                   ELSE /\ disk' = disk \ {heap[file].filename}
                        /\ handlers' = [handlers EXCEPT ![h].pc = "deleteFile"]

\* the delete handler without `if (fs.existsSync(filePath))`: unlinkSync
\* throws for a blob that is not there
DeleteAdminFileRemoveNoExistsCheck(h) ==
  LET file == handlers[h].file IN
  /\ handlers[h].kind = "delete"
  /\ handlers[h].pc = "getAllFiles"
  /\ IF file = Undefined
       THEN Responds(h, 200) /\ UNCHANGED disk
       ELSE \E threw \in BOOLEAN :
              /\ heap[file].filename \notin disk => threw
              /\ IF threw
                   THEN Responds(h, 500) /\ UNCHANGED disk
                   ELSE /\ disk' = disk \ {heap[file].filename}
                        /\ deleteFile(heap[file].id)
                        /\ handlers' = [handlers EXCEPT ![h].pc = "deleteFile"]

\* ... if (file) { if (fs.existsSync(filePath)) fs.unlinkSync(filePath);
\* await storage.deleteFile(id) }; without a file, res.json({ success: true })
\* (fs.unlinkSync may throw, e.g. for want of permission: the blob then stays,
\* and the catch block answers 500)
DeleteAdminFileRemove(h) ==
  LET file == handlers[h].file IN
  /\ handlers[h].kind = "delete"
  /\ handlers[h].pc = "getAllFiles"
  /\ IF file = Undefined
       THEN Responds(h, 200) /\ UNCHANGED disk
       ELSE \E threw \in BOOLEAN :
              /\ threw => heap[file].filename \in disk
              /\ IF threw
                   THEN Responds(h, 500) /\ UNCHANGED disk
                   ELSE /\ disk' = disk \ {heap[file].filename}
                        /\ deleteFile(heap[file].id)
                        /\ handlers' = [handlers EXCEPT ![h].pc = "deleteFile"]

\* ... res.json({ success: true })
DeleteAdminFileRespond(h) ==
  /\ handlers[h].kind = "delete"
  /\ handlers[h].pc = "deleteFile"
  /\ Responds(h, 200)
  /\ UNCHANGED disk

PostUploadStores        == (\E file \in UploadFiles : PostUploadStored(file)) /\ UNCHANGED zone
PostUploadRejects       == (\E file \in UploadFiles : PostUploadRejected(file)) /\ UNCHANGED zone
PostUploadWithoutFile   == PostUploadNoFile /\ UNCHANGED zone
PostUploadCreates       == (\E h \in Handlers : PostUploadCreate(h)) /\ UNCHANGED zone
PostUploadResponds      == (\E h \in Handlers : PostUploadRespond(h)) /\ UNCHANGED zone
GetFileLooksUp          == (\E shareId \in ShareIds : GetFileLookup(shareId)) /\ UNCHANGED zone
GetFileIncrements       == (\E h \in Handlers : GetFileIncrement(h)) /\ UNCHANGED zone
GetFileResponds         == (\E h \in Handlers : GetFileRespond(h)) /\ UNCHANGED zone
GetDownloadLooksUp      == (\E shareId \in ShareIds : GetDownloadLookup(shareId)) /\ UNCHANGED zone
GetDownloadIncrements   == (\E h \in Handlers : GetDownloadIncrement(h)) /\ UNCHANGED zone
GetDownloadSends        == (\E h \in Handlers : GetDownloadSend(h)) /\ UNCHANGED zone
GetPreviewLooksUp       == (\E shareId \in ShareIds : GetPreviewLookup(shareId)) /\ UNCHANGED zone
GetPreviewSends         == (\E h \in Handlers : GetPreviewSend(h)) /\ UNCHANGED zone
DeleteAdminFileFinds    == (\E id \in Ids : DeleteAdminFileFind(id)) /\ UNCHANGED zone
DeleteAdminFileRemoves  == (\E h \in Handlers : DeleteAdminFileRemove(h)) /\ UNCHANGED zone
DeleteAdminFileResponds == (\E h \in Handlers : DeleteAdminFileRespond(h)) /\ UNCHANGED zone

NextHttp ==
  \/ PostUploadStores
  \/ PostUploadCreates
  \/ PostUploadResponds
  \/ GetFileLooksUp
  \/ GetFileIncrements
  \/ GetFileResponds
  \/ GetDownloadLooksUp
  \/ GetDownloadIncrements
  \/ GetDownloadSends
  \/ GetPreviewLooksUp
  \/ GetPreviewSends
  \/ DeleteAdminFileFinds
  \/ DeleteAdminFileRemoves
  \/ DeleteAdminFileResponds

SpecHttp == Init /\ [][NextHttp]_vars

\* the upload route alone, with the requests multer or the handler refuses
NextUpload ==
  \/ PostUploadStores
  \/ PostUploadRejects
  \/ PostUploadWithoutFile
  \/ PostUploadCreates
  \/ PostUploadResponds
SpecUpload == Init /\ [][NextUpload]_vars

\* ---------------------------------------------------------------------------
\* The UploadZone component (client)
\* ---------------------------------------------------------------------------

server == <<heap, files, currentId, now, call, issued, viewCalls, downloadCalls, deleted,
            handlers, disk>>

\* what response.json() of POST /api/upload can be
Responses == {"fileA", "fileB"}
NoResult == "undefined"

\* prev.map(uf => uf.file === file ? { ...uf, ...patch } : uf)
MapFile(prev, file, status, progress, result) ==
  [i \in 1..Len(prev) |->
     IF prev[i].file = file
       THEN [prev[i] EXCEPT !.status = status, !.progress = progress, !.result = result]
       ELSE prev[i]]

\* prev.filter(uf => uf.file !== fileToRemove)
RECURSIVE FilterFile(_, _)
FilterFile(prev, fileToRemove) ==
  IF prev = <<>> THEN <<>>
  ELSE IF Head(prev).file = fileToRemove
         THEN FilterFile(Tail(prev), fileToRemove)
         ELSE <<Head(prev)>> \o FilterFile(Tail(prev), fileToRemove)

\* onDrop(acceptedFiles), with n File objects the page has not seen before
onDrop(n) ==
  LET first == Len(uploadMutation)
      newUploadFiles ==
        [i \in 1..n |->
           [file |-> first + i, progress |-> 0, status |-> "pending", result |-> NoResult]]
      \* the state after the first k rounds of newUploadFiles.forEach
      started[k \in 0..n] ==
        IF k = 0
          THEN uploadFiles \o newUploadFiles
          ELSE MapFile(started[k - 1], newUploadFiles[k].file, "uploading", 50,
                       started[k - 1][Len(uploadFiles) + k].result)
  IN  /\ Len(uploadMutation) + n <= MaxDrops
      /\ uploadFiles' = started[n]
      /\ uploadMutation' =
           uploadMutation \o
             [i \in 1..n |->
                [variables |-> newUploadFiles[i].file, status |-> "pending",
                 data |-> NoResult]]
      /\ UNCHANGED server

\* an onSuccess that puts the entry back when the list no longer has it
onSuccessReAdds(data, m) ==
  LET file == uploadMutation[m].variables IN
  /\ uploadMutation[m].status = "pending"
  /\ uploadFiles' =
       IF \E i \in 1..Len(uploadFiles) : uploadFiles[i].file = file
         THEN MapFile(uploadFiles, file, "complete", 100, data)
         ELSE Append(uploadFiles,
                     [file |-> file, progress |-> 100, status |-> "complete",
                      result |-> data])
  /\ uploadMutation' = [uploadMutation EXCEPT ![m].status = "success", ![m].data = data]
  /\ UNCHANGED server

\* mutation m settles with the response data: onSuccess(data, file)
onSuccess(data, m) ==
  LET file == uploadMutation[m].variables IN
  /\ uploadMutation[m].status = "pending"
  /\ uploadFiles' = MapFile(uploadFiles, file, "complete", 100, data)
  /\ uploadMutation' = [uploadMutation EXCEPT ![m].status = "success", ![m].data = data]
  /\ UNCHANGED server

\* mutation m settles with an error (apiRequest threw): onError(error, file)
onError(m) ==
  LET file == uploadMutation[m].variables
      entry == CHOOSE i \in 1..Len(uploadFiles) : uploadFiles[i].file = file
  IN  /\ uploadMutation[m].status = "pending"
      /\ uploadFiles' =
           IF \E i \in 1..Len(uploadFiles) : uploadFiles[i].file = file
             THEN MapFile(uploadFiles, file, "error", 0, uploadFiles[entry].result)
             ELSE uploadFiles
      /\ uploadMutation' = [uploadMutation EXCEPT ![m].status = "error"]
      /\ UNCHANGED server

\* removeFile(fileToRemove), from the button of entry i of the list
removeFile(i) ==
  /\ uploadFiles' = FilterFile(uploadFiles, uploadFiles[i].file)
  /\ UNCHANGED <<uploadMutation, server>>

OnDrop     == \E n \in 1..MaxDrops : onDrop(n)
OnSuccess  == \E data \in Responses : \E m \in 1..Len(uploadMutation) : onSuccess(data, m)
OnError    == \E m \in 1..Len(uploadMutation) : onError(m)
RemoveFile == \E i \in 1..Len(uploadFiles) : removeFile(i)

NextUploadZone ==
  \/ OnDrop
  \/ OnSuccess
  \/ OnError
  \/ RemoveFile

SpecUploadZone == Init /\ [][NextUploadZone]_vars

\* ---------------------------------------------------------------- properties
RECURSIVE SumSeq(_)
SumSeq(q) == IF q = <<>> THEN 0 ELSE Head(q) + SumSeq(Tail(q))

LastIssued == issued[Len(issued)]

\* C1: the ids createFile returns, in call order, are strictly increasing (so
\* none is returned twice), whatever was deleted or incremented in between.
C1_IdsStrictlyIncreasing ==
  \A i, j \in 1..Len(issued) : i < j => issued[i].id < issued[j].id

\* a createFile has just returned after a record created earlier was deleted
C1_Witness ==
  /\ call.op = "createFile"
  /\ Len(issued) >= 3
  /\ \E d \in deleted : d.id < LastIssued.id

\* C2: getStats() gives the number of records getAllFiles() returns and the
\* exact sums of views, downloads and size over those records; all four are
\* 0 on an empty store.
C2_StatsMatchAllFiles ==
  LET all   == getAllFiles
      stats == getStats
  IN /\ stats.totalFiles     = Len(all)
     /\ stats.totalViews     = SumSeq([i \in 1..Len(all) |-> heap[all[i]].views])
     /\ stats.totalDownloads = SumSeq([i \in 1..Len(all) |-> heap[all[i]].downloads])
     /\ stats.totalSize      = SumSeq([i \in 1..Len(all) |-> heap[all[i]].size])
     /\ (files = <<>> =>
           stats = [totalFiles |-> 0, totalViews |-> 0, totalDownloads |-> 0,
                    totalSize |-> 0])

\* two live records with views and downloads counted, after a deletion
C2_Witness ==
  /\ Len(files) >= 2
  /\ deleted # {}
  /\ getStats.totalViews > 0
  /\ getStats.totalDownloads > 0
  /\ getStats.totalSize > 0

\* C3: the views of a live record equal the number of incrementViews calls
\* made on its id since it was created (N calls raise views, 0 at creation,
\* by exactly N), whatever happened to other ids in between.
C3_ViewsCountCalls ==
  \A i \in 1..Len(files) : heap[files[i].ref].views = viewCalls[files[i].key]

\* a record viewed twice, with a creation and a deletion of other ids around
C3_Witness ==
  /\ \E i \in 1..Len(files) : viewCalls[files[i].key] >= 2 /\ files[i].key < LastIssued.id
  /\ deleted # {}

\* the File at address r is the record d that deleteFile removed
IsRecord(r, d) == r # Undefined /\ (r = d.file \/ heap[r].id = d.id)

\* C4: a record deleteFile removed is from then on neither what
\* getFileByShareId gives, for its former shareId as for any other, nor among
\* what getAllFiles gives.
C4_DeletedNeverReturned ==
  \A d \in deleted :
    /\ \A s \in ShareIds : ~IsRecord(getFileByShareId(s), d)
    /\ \A i \in 1..Len(getAllFiles) : ~IsRecord(getAllFiles[i], d)

\* records were deleted, records were created after them, each shareId in
\* use is looked up with success, and the store went on being used
C4_Witness ==
  /\ \E d \in deleted : \A s \in {"abc123", "xyz789"} :
        /\ getFileByShareId(s) # Undefined
        /\ heap[getFileByShareId(s)].id > d.id
  /\ call.op \in {"incrementViews", "incrementDownloads"}

\* C5: deleteFile(id) for an id with no live record returns without an error
\* and changes neither the Map, nor a record, nor currentId.
C5_DeleteAbsentIsNoOp ==
  [][ (call'.op = "deleteFile" /\ ~call'.live)
        => (UNCHANGED <<heap, files, currentId>> /\ ~call'.threw) ]_vars

\* every id of Ids has been issued, so the id without a live record that
\* deleteFile was just called with had been deleted before; others are live
C5_Witness ==
  /\ call.op = "deleteFile"
  /\ ~call.live
  /\ currentId > MaxFiles
  /\ deleted # {}
  /\ files # <<>>

\* the records that are live, and the place of a File in a list
LiveFiles == {files[i].ref : i \in 1..Len(files)}
Place(list, r) == CHOOSE i \in 1..Len(list) : list[i] = r
DistinctDates(S) == \A r1, r2 \in S : r1 # r2 => heap[r1].uploadedAt # heap[r2].uploadedAt

\* C6: getAllFiles() gives each live record once and nothing else, a later
\* uploadedAt before an earlier one; when the live records have pairwise
\* distinct timestamps that is the reverse of their creation order, so A, B,
\* C created in that order and not deleted come back as [C, B, A].
C6_AllFilesNewestFirst ==
  LET all == getAllFiles IN
  /\ Len(all) = Cardinality(LiveFiles)
  /\ {all[i] : i \in 1..Len(all)} = LiveFiles
  /\ \A i, j \in 1..Len(all) : i < j => heap[all[i]].uploadedAt >= heap[all[j]].uploadedAt
  /\ DistinctDates(LiveFiles) =>
        \A i, j \in 1..Len(all) : i < j => heap[all[i]].id > heap[all[j]].id
  /\ (Len(issued) = 3 /\ deleted = {} /\ DistinctDates(LiveFiles)) =>
        all = <<issued[3].file, issued[2].file, issued[1].file>>

\* A, B, C created at three different times, none deleted
C6_Witness ==
  /\ Len(issued) = 3
  /\ deleted = {}
  /\ Len(files) = 3
  /\ DistinctDates(LiveFiles)
  /\ getAllFiles = <<3, 2, 1>>

\* C7: of two live records with the same uploadedAt, getAllFiles() gives the
\* one inserted later before the one inserted earlier.
C7_TiesLaterInsertedFirst ==
  \A i, j \in 1..Len(files) :
    (i < j /\ heap[files[i].ref].uploadedAt = heap[files[j].ref].uploadedAt)
      => Place(getAllFiles, files[j].ref) < Place(getAllFiles, files[i].ref)

\* the live records with shareId s, and the one of them created first
LiveWith(s) == {r \in LiveFiles : heap[r].shareId = s}
CreatedFirst(S) ==
  LET k == Min({i \in 1..Len(issued) : issued[i].file \in S}) IN issued[k].file

\* C8: getFileByShareId(s) gives undefined when no live record has shareId s
\* and otherwise the live record with shareId s that was inserted first, also
\* when several have s and after their counters were incremented.
C8_LookupGivesFirstInserted ==
  \A s \in ShareIds :
    IF LiveWith(s) = {} THEN getFileByShareId(s) = Undefined
                        ELSE getFileByShareId(s) = CreatedFirst(LiveWith(s))

\* two live records with one shareId, the first inserted having just been
\* viewed and downloaded
C8_Witness ==
  \E s \in ShareIds :
    /\ Cardinality(LiveWith(s)) >= 2
    /\ heap[getFileByShareId(s)].views > 0
    /\ heap[getFileByShareId(s)].downloads > 0
    /\ call.op = "incrementDownloads"

\* C9: the k-th createFile returns id k (1 on a fresh store, then the id
\* returned before plus 1); the File it returns has views 0 and downloads 0,
\* the draft's filename, originalName, mimeType, size and shareId, and is the
\* value of the Map under the returned id when the call returns.
C9_CreateFileResult ==
  /\ \A k \in 1..Len(issued) : issued[k].id = k
  /\ call.op = "createFile" =>
        LET file == heap[call.file] IN
        /\ call.file = LastIssued.file
        /\ file.id = LastIssued.id
        /\ file.views = 0
        /\ file.downloads = 0
        /\ file.filename = call.draft.filename
        /\ file.originalName = call.draft.originalName
        /\ file.mimeType = call.draft.mimeType
        /\ file.size = call.draft.size
        /\ file.shareId = call.draft.shareId
        /\ MapGet(files, file.id) = call.file
        /\ ~call.threw

\* the third createFile has just returned, after counting and a deletion
C9_Witness ==
  /\ call.op = "createFile"
  /\ Len(issued) = 3
  /\ LastIssued.id = 3
  /\ deleted # {}
  /\ Increments > 0

\* C10: incrementViews(id) and incrementDownloads(id) for an id with no live
\* record return without an error and change neither the Map (no record is
\* inserted), nor a record, nor currentId.
C10_IncrementAbsentIsNoOp ==
  [][ (call'.op \in {"incrementViews", "incrementDownloads"} /\ ~call'.live)
        => (UNCHANGED <<heap, files, currentId>> /\ ~call'.threw) ]_vars

\* every id of Ids has been issued, so the id without a live record that
\* incrementDownloads was just called with is a deleted one; others are live
C10_Witness ==
  /\ call.op = "incrementDownloads"
  /\ ~call.live
  /\ currentId > MaxFiles
  /\ deleted # {}
  /\ files # <<>>

\* C11: the views and the downloads of a live record are non-negative
\* integers, and no step makes either of them smaller while the record
\* stays live.
C11_CountersNeverDecrease ==
  [][ /\ \A a \in LiveFiles' : heap'[a].views \in Nat /\ heap'[a].downloads \in Nat
      /\ \A a \in LiveFiles \cap LiveFiles' :
            /\ heap'[a].views >= heap[a].views
            /\ heap'[a].downloads >= heap[a].downloads ]_vars

\* a record viewed and downloaded has stayed live through a later creation
\* and a deletion of another record
C11_Witness ==
  /\ \E a \in LiveFiles :
        /\ heap[a].views > 0
        /\ heap[a].downloads > 0
        /\ heap[a].id < LastIssued.id
  /\ deleted # {}
  /\ call.op = "deleteFile"

\* the File at address a but for its views, and but for its downloads
ButViews(h, a)     == [h[a] EXCEPT !.views = 0]
ButDownloads(h, a) == [h[a] EXCEPT !.downloads = 0]

\* C13: incrementViews(id) changes nothing but the views of the record with
\* that id, and incrementDownloads(id) nothing but its downloads: the other
\* fields of the record, the other records, the live ids and their insertion
\* order, and currentId stay as they were.
C13_IncrementsChangeOneCounter ==
  [][ \A id \in Ids :
        /\ (call'.op = "incrementViews" /\ incrementViews(id)) =>
              /\ files' = files
              /\ currentId' = currentId
              /\ Len(heap') = Len(heap)
              /\ \A a \in Addresses :
                    IF a = MapGet(files, id) THEN ButViews(heap', a) = ButViews(heap, a)
                                             ELSE heap'[a] = heap[a]
        /\ (call'.op = "incrementDownloads" /\ incrementDownloads(id)) =>
              /\ files' = files
              /\ currentId' = currentId
              /\ Len(heap') = Len(heap)
              /\ \A a \in Addresses :
                    IF a = MapGet(files, id) THEN ButDownloads(heap', a) = ButDownloads(heap, a)
                                             ELSE heap'[a] = heap[a] ]_vars

\* incrementViews has just raised the views of the record inserted first, of
\* two live records one of which had a counter raised before
C13_Witness ==
  /\ call.op = "incrementViews"
  /\ call.live
  /\ Len(files) >= 2
  /\ heap[files[1].ref].views > 0
  /\ Increments >= 2

\* C15: createFile has no error path and does not look at the shareId: given
\* a draft whose shareId a live record holds, it returns without an error a
\* new record under the next id, and the records that held the shareId stay
\* live beside it.
C15_CreateFileAcceptsDuplicate ==
  [][ \A insertFile \in Drafts :
        (createFile(insertFile) /\ LiveWith(insertFile.shareId) # {}) =>
          /\ ~call'.threw
          /\ call'.file \notin LiveFiles
          /\ heap'[call'.file].id = currentId
          /\ heap'[call'.file].shareId = insertFile.shareId
          /\ ~MapHas(files, currentId)
          /\ MapGet(files', currentId) = call'.file
          /\ \A r \in LiveWith(insertFile.shareId) :
                /\ r \in LiveFiles'
                /\ heap'[r] = heap[r]
          /\ Cardinality(LiveFiles') = Cardinality(LiveFiles) + 1 ]_vars

\* createFile has just returned a record whose shareId an older live record
\* holds as well
C15_Witness ==
  /\ call.op = "createFile"
  /\ ~call.threw
  /\ \E r \in LiveFiles :
        /\ r # call.file
        /\ call.file \in LiveFiles
        /\ heap[r].shareId = heap[call.file].shareId

\* C12: deletion is final: the id of a record deleteFile removed never has a
\* live record again, and the File removed is never in the Map again,
\* whatever the route handlers go on to do (uploads, views, downloads and
\* deletes, also ones that had looked the record up before it was removed).
C12_DeletedStaysDeleted ==
  \A d \in deleted :
    /\ ~MapHas(files, d.id)
    /\ d.file \notin LiveFiles
    /\ \A r \in LiveFiles : heap[r].id # d.id

\* a view handler looked a record up, the record was deleted, and the handler
\* then called incrementViews with its id and responded
C12_Witness ==
  /\ deleted # {}
  /\ \E h \in Handlers :
        /\ handlers[h].kind = "view"
        /\ handlers[h].status = 200
        /\ handlers[h].inc
        /\ handlers[h].hit = 0

\* C14: the live records, all of them created by the upload handler, have
\* pairwise distinct shareIds.
C14_UploadShareIdsDistinct ==
  \A r1, r2 \in LiveFiles : r1 # r2 => heap[r1].shareId # heap[r2].shareId

\* the handlers of a kind that came to count their request for record id
Counted(kind, id) == {h \in Handlers : handlers[h].kind = kind /\ handlers[h].hit = id}
\* handler h is past its increment and has not responded yet
InFlight(h) == handlers[h].pc \in {"incrementViews", "incrementDownloads"}

\* C16: whatever the interleaving of the handlers, the views of a live
\* record are the number of view requests and its downloads the number of
\* download requests that reached their increment on it: of k view and m
\* download requests overlapping on one record none is lost.
C16_NoLostUpdate ==
  \A i \in 1..Len(files) :
    /\ heap[files[i].ref].views = Cardinality(Counted("view", files[i].key))
    /\ heap[files[i].ref].downloads = Cardinality(Counted("download", files[i].key))

\* two requests on one live record, both past their increment and neither
\* one answered yet
C16_Witness ==
  \E i \in 1..Len(files) : \E g, h \in Handlers :
    /\ g # h
    /\ InFlight(g) /\ InFlight(h)
    /\ handlers[g].hit = files[i].key
    /\ handlers[h].hit = files[i].key
    /\ heap[files[i].ref].views + heap[files[i].ref].downloads = 2

\* the step leaves the Map, every live record and currentId as they were (an
\* object no longer reachable may be collected)
StoreUnchanged ==
  /\ files' = files
  /\ currentId' = currentId
  /\ \A r \in LiveFiles : heap'[r] = heap[r]

\* C17: GET /api/files/:shareId finds a File exactly when a live record has
\* the shareId.  With a File it calls incrementViews(file.id) before it
\* responds, which raises the views of that record, live at the call, by
\* exactly 1, and then responds 200 changing nothing; without one it
\* responds 404 and changes nothing in the store.
C17_ViewCountsBeforeResponding ==
  [][ /\ \A shareId \in ShareIds :
            GetFileLookup(shareId) =>
              /\ handlers'[Len(handlers')].file = Undefined <=> LiveWith(shareId) = {}
              /\ StoreUnchanged
      /\ \A h \in Handlers :
            /\ GetFileIncrement(h) =>
                  LET file == handlers[h].file IN
                  IF file = Undefined
                    THEN /\ handlers'[h].status = 404
                         /\ StoreUnchanged
                    ELSE /\ handlers'[h].status = 0
                         /\ call'.op = "incrementViews"
                         /\ viewCalls' = IF MapHas(files, heap[file].id)
                                           THEN [viewCalls EXCEPT ![heap[file].id] = @ + 1]
                                           ELSE viewCalls
                         /\ file \in LiveFiles => heap'[file].views = heap[file].views + 1
            /\ GetFileRespond(h) =>
                  /\ handlers[h].inc
                  /\ handlers'[h].status = 200
                  /\ StoreUnchanged ]_vars

\* one view request answered 200 after it raised the views of its record,
\* and another answered 404
C17_Witness ==
  \E g, h \in Handlers :
    /\ handlers[g].kind = "view" /\ handlers[g].status = 200
    /\ handlers[g].hit # 0
    /\ MapHas(files, handlers[g].hit)
    /\ heap[MapGet(files, handlers[g].hit)].views = 1
    /\ handlers[h].kind = "view" /\ handlers[h].status = 404

\* C18 as stated: a request answered 200 on the view, the download or the
\* preview path has made a counter increment.
C18_EveryReadCounts ==
  \A h \in Handlers :
    (handlers[h].kind \in {"view", "download", "preview"} /\ handlers[h].status = 200)
      => handlers[h].inc

\* C18: a request answered 200 on the view path or on the download path has
\* called the increment of its path on the record it matched; a request on
\* the preview path calls no increment.
C18_ViewAndDownloadCount ==
  \A h \in Handlers :
    /\ (handlers[h].kind \in {"view", "download"} /\ handlers[h].status = 200)
          => handlers[h].inc
    /\ handlers[h].kind = "preview" => ~handlers[h].inc

\* a download and a preview of one live record, both answered 200
C18_Witness ==
  \E g, h \in Handlers :
    /\ handlers[g].kind = "download" /\ handlers[g].status = 200
    /\ MapHas(files, handlers[g].hit)
    /\ handlers[h].kind = "preview" /\ handlers[h].status = 200

C20_PreviewCountsNothing ==
  [][ /\ \A shareId \in ShareIds : GetPreviewLookup(shareId) => (StoreUnchanged /\ UNCHANGED call)
      /\ \A h \in Handlers :
            GetPreviewSend(h) =>
              /\ StoreUnchanged
              /\ UNCHANGED <<call, downloadCalls>> ]_vars

\* a preview answered 200, of a live record that had been downloaded once
C20_Witness ==
  \E i \in 1..Len(files) : \E g, h \in Handlers :
    /\ handlers[g].kind = "download" /\ handlers[g].hit = files[i].key
    /\ handlers[h].kind = "preview" /\ handlers[h].status = 200
    /\ g < h
    /\ heap[files[i].ref].downloads = 1

\* C29: the record the Map holds under key k has id k; every key of the Map
\* is at least 1 and less than currentId; and the Map holds at most
\* currentId - 1 records.
C29_KeysAreIdsBelowCounter ==
  /\ \A i \in 1..Len(files) :
        /\ heap[files[i].ref].id = files[i].key
        /\ files[i].key >= 1
        /\ files[i].key < currentId
  /\ Len(files) <= currentId - 1

\* every id has been issued, a record was deleted, the others are live and
\* one of them has been counted on
C29_Witness ==
  /\ currentId = MaxFiles + 1
  /\ Len(files) = MaxFiles - 1
  /\ Cardinality(deleted) = 1
  /\ Increments > 0

\* C23: a call of getFileByShareId, of getAllFiles or of getStats leaves the
\* Map (the live records and their insertion order), every field of every
\* record and currentId as they were; getAllFiles in particular returns the
\* records sorted and leaves the order of the Map alone.
C23_ReadsChangeNothing ==
  [][ /\ \A shareId \in ShareIds :
            (call'.op = "getFileByShareId" /\ getFileByShareIdCall(shareId))
              => UNCHANGED <<heap, files, currentId>>
      /\ (call'.op = "getAllFiles" /\ getAllFilesCall) => UNCHANGED <<heap, files, currentId>>
      /\ (call'.op = "getStats" /\ getStatsCall) => UNCHANGED <<heap, files, currentId>> ]_vars

\* getAllFiles has just returned two records in the reverse of the order the
\* Map holds them in, one of them counted on
C23_Witness ==
  /\ call.op = "getAllFiles"
  /\ Len(files) = 2
  /\ getAllFiles = <<files[2].ref, files[1].ref>>
  /\ Increments > 0
  /\ deleted # {}

\* C24: when the record a view request matched is live from the lookup to
\* the response, the views in the body of the response are the views of the
\* record after the handler's own increment: they count every view request
\* that reached its increment on the record so far, this one included, so
\* the first view of a record reports 1.
C24_ResponseCountsThisView ==
  [][ \A h \in Handlers :
        (GetFileRespond(h) /\ handlers[h].hit # 0 /\ MapHas(files, handlers[h].hit)) =>
          /\ handlers'[h].status = 200
          /\ handlers'[h].body = heap[handlers[h].file].views
          /\ handlers'[h].body = Cardinality(Counted("view", handlers[h].hit))
          /\ h \in Counted("view", handlers[h].hit)
          /\ handlers'[h].body >= 1 ]_vars

\* two view requests of one live record answered, the first with views 1 and
\* the second with views 2
C24_Witness ==
  \E i \in 1..Len(files) : \E g, h \in Handlers :
    /\ handlers[g].kind = "view" /\ handlers[g].status = 200
    /\ handlers[h].kind = "view" /\ handlers[h].status = 200
    /\ handlers[g].hit = files[i].key /\ handlers[h].hit = files[i].key
    /\ handlers[g].body = 1
    /\ handlers[h].body = 2

\* C21: the admin delete handler unlinks the blob before it removes the
\* record: in no step does a record leave the Map with its blob still on the
\* disk, and where the unlink fails the record is not removed.
C21_BlobGoesBeforeRecord ==
  [][ /\ \A r \in LiveFiles \ LiveFiles' : heap[r].filename \notin disk'
      /\ \A h \in Handlers :
            (DeleteAdminFileRemove(h) /\ handlers[h].file \in LiveFiles) =>
              \/ /\ handlers'[h].status = 500
                 /\ handlers[h].file \in LiveFiles'
              \/ /\ handlers'[h].status = 0
                 /\ handlers[h].file \notin LiveFiles'
                 /\ heap[handlers[h].file].filename \notin disk' ]_vars

\* a delete handler has removed one of two uploaded records and its blob and
\* has not responded yet; the other record and its blob are there
C21_Witness ==
  \E h \in Handlers :
    /\ handlers[h].kind = "delete"
    /\ handlers[h].pc = "deleteFile"
    /\ handlers[h].file \notin LiveFiles
    /\ heap[handlers[h].file].filename \notin disk
    /\ Len(files) = 1
    /\ heap[files[1].ref].filename \in disk

C27_FailedUnlinkKeepsRecord ==
  [][ \A h \in Handlers :
        (DeleteAdminFileRemove(h) /\ handlers'[h].status = 500) =>
          /\ handlers[h].file \in LiveFiles
          /\ handlers[h].file \in LiveFiles'
          /\ heap'[handlers[h].file] = heap[handlers[h].file]
          /\ StoreUnchanged
          /\ UNCHANGED <<call, deleted, disk>> ]_vars

\* a delete request answered 500; the record, viewed before, is live and its
\* blob is on the disk
C27_Witness ==
  \E h \in Handlers :
    /\ handlers[h].kind = "delete"
    /\ handlers[h].status = 500
    /\ Len(files) = 1
    /\ heap[files[1].ref].views = 1
    /\ heap[files[1].ref].filename \in disk
    /\ deleted = {}

\* C25: when the record a view or download handler looked up has been
\* deleted by the time the handler comes to its increment, that step counts
\* nothing: the Map does not get the record back, getAllFiles() and
\* getStats() give what they gave before and the record is not among the
\* files, and the File the handler holds is unchanged.  (The download
\* handler does not get as far as the call: the blob went with the record,
\* and it answers 404.)
C25_LateIncrementIsNoOp ==
  [][ \A h \in Handlers :
        LET file == handlers[h].file IN
        /\ (GetFileIncrement(h) /\ file # Undefined /\ file \notin LiveFiles) =>
              /\ call'.op = "incrementViews" /\ ~call'.live
              /\ files' = files
              /\ ~MapHas(files', heap[file].id)
              /\ heap'[file] = heap[file]
              /\ StoreUnchanged
              /\ getAllFiles' = getAllFiles
              /\ \A i \in 1..Len(getAllFiles') : getAllFiles'[i] # file
              /\ getStats' = getStats
        /\ (GetDownloadIncrement(h) /\ file # Undefined /\ file \notin LiveFiles) =>
              /\ handlers'[h].status = 404
              /\ files' = files
              /\ ~MapHas(files', heap[file].id)
              /\ StoreUnchanged
              /\ UNCHANGED call
              /\ getAllFiles' = getAllFiles
              /\ getStats' = getStats ]_vars

\* a delete request removed the record and responded between the lookup and
\* the increment of a view request, which has now made its incrementViews
\* call and not responded yet: the File it holds has views 0
C25_Witness ==
  \E g, h \in Handlers :
    /\ handlers[g].kind = "delete" /\ handlers[g].status = 200
    /\ handlers[h].kind = "view" /\ handlers[h].pc = "incrementViews"
    /\ h < g
    /\ handlers[h].hit = 0
    /\ handlers[h].file \notin LiveFiles
    /\ heap[handlers[h].file].views = 0
    /\ call.op = "incrementViews" /\ ~call.live
    /\ getStats.totalViews = 0

\* the extension of a file name, lower case: what follows its last "."
Extension(name) ==
  LET dots == {i \in 1..Len(name) : CharAt(name, i) = "."}
      last == CHOOSE i \in dots : \A j \in dots : j <= i
  IN  IF dots = {} THEN "" ELSE ToLowerCase(SubSeq(name, last + 1, Len(name)) \o "")
AllowedExtensions ==
  {"jpg", "jpeg", "png", "gif", "pdf", "doc", "docx", "xls", "xlsx", "ppt", "pptx", "zip",
   "rar", "txt", "csv"}
MaxUploadBytes == 100 * 1024 * 1024
Valid(name, size) == Extension(name) \in AllowedExtensions /\ size <= MaxUploadBytes
InvalidFiles == {file \in UploadFiles : ~Valid(file.originalname, file.size)}

\* C22: an upload whose file has a name with an extension outside the
\* allowed list or is larger than 100 MiB, or that carries no file, is
\* answered with an error and creates no record and leaves currentId alone;
\* a draft reaches createFile only when its name and size are valid.
C22_RejectedUploadCreatesNothing ==
  [][ /\ \A file \in UploadFiles :
            ( /\ Len(handlers') = Len(handlers) + 1
              /\ PostUploadStored(file) \/ PostUploadRejected(file) ) =>
              /\ StoreUnchanged
              /\ UNCHANGED <<heap, call, issued>>
              /\ file \in InvalidFiles =>
                    /\ handlers'[Len(handlers')].status \notin {0, 200}
                    /\ UNCHANGED disk
      /\ (Len(handlers') = Len(handlers) + 1 /\ PostUploadNoFile) =>
            /\ handlers'[Len(handlers')].status = 400
            /\ StoreUnchanged
            /\ UNCHANGED <<heap, call, issued, disk>>
      /\ \A h \in Handlers :
            (handlers'[h].pc = "createFile" /\ PostUploadCreate(h)) =>
              /\ call'.op = "createFile"
              /\ Valid(call'.draft.originalName, call'.draft.size)
              /\ handlers[h].status = 0 ]_vars

\* an upload with a refused file and an upload without a file were answered
\* with an error, then a valid upload created the first record, with id 1
C22_Witness ==
  /\ Len(handlers) = 3
  /\ handlers[1].kind = "upload" /\ handlers[1].status = 500
  /\ handlers[2].kind = "upload" /\ handlers[2].status = 400
  /\ handlers[3].kind = "upload" /\ handlers[3].status = 200
  /\ currentId = 2
  /\ Len(files) = 1
  /\ files[1].key = 1

\* the entry of File f in a list, or none
Listed(list, f) == {i \in 1..Len(list) : list[i].file = f}
Dropped == 1..Len(uploadMutation)

\* C28: once onDrop has run every file it was handed is "uploading" with
\* progress 50; an "uploading" entry goes only to "complete" with progress
\* 100 and the response as result, or to "error" with progress 0 (or is
\* removed); a File that was dropped and is no longer in the list is never
\* in the list again.
C28_UploadListTransitions ==
  [][ /\ \A f \in Dropped' \ Dropped :
            \E i \in Listed(uploadFiles', f) :
              uploadFiles'[i].status = "uploading" /\ uploadFiles'[i].progress = 50
      /\ \A f \in Dropped :
            \A i \in Listed(uploadFiles, f) : \A j \in Listed(uploadFiles', f) :
              (uploadFiles[i].status = "uploading" /\ uploadFiles'[j] # uploadFiles[i]) =>
                \/ /\ uploadFiles'[j].status = "complete"
                   /\ uploadFiles'[j].progress = 100
                   /\ uploadMutation'[f].status = "success"
                   /\ uploadFiles'[j].result = uploadMutation'[f].data
                   /\ uploadFiles'[j].result \in Responses
                \/ /\ uploadFiles'[j].status = "error"
                   /\ uploadFiles'[j].progress = 0
                   /\ uploadMutation'[f].status = "error"
      /\ \A f \in Dropped :
            Listed(uploadFiles, f) = {} => Listed(uploadFiles', f) = {} ]_vars

\* the first of two dropped files was removed while its upload was in flight
\* and that upload has since succeeded; the second has completed in the list
C28_Witness ==
  /\ Len(uploadMutation) >= 2
  /\ uploadMutation[1].status = "success"
  /\ Listed(uploadFiles, 1) = {}
  /\ uploadMutation[2].status = "success"
  /\ \E i \in Listed(uploadFiles, 2) : uploadFiles[i].status = "complete"
====
